---- MODULE Spec2Model ----
(***************************************************************************)
(* Smart Life Hub (simpliefied2.py) and the morning-brief script.          *)
(*                                                                         *)
(* The model covers the two flat-file managers, ReminderManager            *)
(* (reminders.json) and ExpenseManager (expenses.csv), and the callers     *)
(* that drive them.  Python strings are sequences of one-character         *)
(* strings, so that str.strip, float() and datetime.strptime are computed  *)
(* character by character.  Amounts are exact decimals counted in          *)
(* hundredths (20.0 is 2000); binary floating-point error is not modelled. *)
(***************************************************************************)
EXTENDS Integers, Sequences, FiniteSets, TLC

VARIABLES
    page,      \* the dashboard page the session is on (sidebar radio)
    remFile,   \* reminders.json: [exists, data], data the JSON document
    expFile,   \* expenses.csv:   [exists, data], data the CSV header and rows
    op,        \* name of the last operation executed
    arg,       \* its arguments
    ret,       \* its outcome: [exc |-> "" or the exception raised, val |-> returned value]
    procs,     \* two callers in a load-mutate-save cycle: pc, cycle, locals
    saved,     \* the callers that have saved, in the order of their saves
    prog       \* a run of the morning brief or of the weather and news page

vars == <<page, remFile, expFile, op, arg, ret, procs, saved, prog>>

\* What a single session on the stores leaves alone.
others == <<procs, saved, prog>>

\* ------------------------------------------------------------------ bounds
\* Most reminders a file holds in the explored sessions.
MaxRem == 2

\* ------------------------------------------------------------ configuration
PAGE_REMINDERS == "Reminders"
PAGE_EXPENSES == "Expenses"

\* A file that does not exist (open() raises FileNotFoundError).
AbsentFile == [exists |-> FALSE, data |-> <<>>]
FileOf(data) == [exists |-> TRUE, data |-> data]

\* -------------------------------------------------------------------- text
Digit == {"0", "1", "2", "3", "4", "5", "6", "7", "8", "9"}
Digit19 == Digit \ {"0"}

DigitVal(c) ==
    CASE c = "0" -> 0 [] c = "1" -> 1 [] c = "2" -> 2 [] c = "3" -> 3
      [] c = "4" -> 4 [] c = "5" -> 5 [] c = "6" -> 6 [] c = "7" -> 7
      [] c = "8" -> 8 [] c = "9" -> 9

IsSpace(c) == c = " "

\* s[i], or "" past the end of s.
At(s, i) == IF i >= 1 /\ i <= Len(s) THEN s[i] ELSE ""

Min(S) == CHOOSE x \in S : \A y \in S : x <= y

RECURSIVE lstrip(_)
lstrip(s) == IF s # <<>> /\ IsSpace(Head(s)) THEN lstrip(Tail(s)) ELSE s

RECURSIVE rstrip(_)
rstrip(s) ==
    IF s # <<>> /\ IsSpace(s[Len(s)]) THEN rstrip(SubSeq(s, 1, Len(s) - 1)) ELSE s

\* str.strip()
strip(s) == rstrip(lstrip(s))

\* int() of a run of digits, leading blanks skipped.
RECURSIVE IntOf(_)
IntOf(s) ==
    IF s = <<>> THEN 0
    ELSE IF IsSpace(s[Len(s)]) THEN 0
    ELSE IntOf(SubSeq(s, 1, Len(s) - 1)) * 10 + DigitVal(s[Len(s)])

\* ------------------------------------------------------ datetime.strptime
\* _strptime compiles the format to a regular expression: each directive to
\* an alternation tried in order, a blank of the format to \s+, any other
\* character to itself.  Alts gives, for one element of the compiled
\* pattern at position p of s, the positions where its alternatives end, in
\* the order the regex engine tries them.
OneIf(cond, p) == IF cond THEN <<p>> ELSE <<>>

RECURSIVE SpaceRun(_, _)
SpaceRun(s, p) == IF IsSpace(At(s, p)) THEN 1 + SpaceRun(s, p + 1) ELSE 0

Alts(e, s, p) ==
    LET a == At(s, p)
        b == At(s, p + 1)
    IN CASE e = "%Y" ->
              OneIf(\A k \in 0..3 : At(s, p + k) \in Digit, p + 4)
         [] e = "%m" ->
              OneIf(a = "1" /\ b \in {"0", "1", "2"}, p + 2)
              \o OneIf(a = "0" /\ b \in Digit19, p + 2)
              \o OneIf(a \in Digit19, p + 1)
         [] e = "%d" ->
              OneIf(a = "3" /\ b \in {"0", "1"}, p + 2)
              \o OneIf(a \in {"1", "2"} /\ b \in Digit, p + 2)
              \o OneIf(a = "0" /\ b \in Digit19, p + 2)
              \o OneIf(a \in Digit19, p + 1)
              \o OneIf(a = " " /\ b \in Digit19, p + 2)
         [] e = "%H" ->
              OneIf(a = "2" /\ b \in {"0", "1", "2", "3"}, p + 2)
              \o OneIf(a \in {"0", "1"} /\ b \in Digit, p + 2)
              \o OneIf(a \in Digit, p + 1)
         [] e = "%M" ->
              OneIf(a \in {"0", "1", "2", "3", "4", "5"} /\ b \in Digit, p + 2)
              \o OneIf(a \in Digit, p + 1)
         [] e = "\\s+" ->
              LET n == SpaceRun(s, p) IN [k \in 1..n |-> p + n + 1 - k]
         [] OTHER -> OneIf(a = e, p + 1)

\* re.match from position p with elements i.. of the pattern: the first
\* path the backtracking engine finds; ends holds where each element ended.
RECURSIVE ReMatch(_, _, _, _)
RECURSIVE TryAlts(_, _, _, _, _)
NoMatch == [ok |-> FALSE, ends |-> <<>>]

Matched(e, rest, s, pat, i, alts, k) ==
    IF rest.ok THEN [ok |-> TRUE, ends |-> <<e>> \o rest.ends]
    ELSE TryAlts(s, pat, i, alts, k + 1)

TryAlts(s, pat, i, alts, k) ==
    IF k > Len(alts) THEN NoMatch
    ELSE Matched(alts[k], ReMatch(s, alts[k], pat, i + 1), s, pat, i, alts, k)

ReMatch(s, p, pat, i) ==
    IF i > Len(pat) THEN [ok |-> TRUE, ends |-> <<>>]
    ELSE TryAlts(s, pat, i, Alts(pat[i], s, p), 1)

FMT_DATETIME == <<"%Y", "-", "%m", "-", "%d", "\\s+", "%H", ":", "%M">>
FMT_DATE == <<"%Y", "-", "%m", "-", "%d">>

IsLeap(y) == (y % 4 = 0 /\ y % 100 # 0) \/ y % 400 = 0

DaysInMonth(y, m) ==
    IF m = 2 THEN (IF IsLeap(y) THEN 29 ELSE 28)
    ELSE IF m \in {4, 6, 9, 11} THEN 30 ELSE 31

NoTime == [ok |-> FALSE, Y |-> 0, m |-> 0, d |-> 0, H |-> 0, M |-> 0]

\* datetime.datetime.strptime(s, fmt): ok is FALSE where it raises ValueError
\* (no match, unconverted data remains, or a day the month does not have).
strptime(s, fmt) ==
    LET r == ReMatch(s, 1, fmt, 1)
        start(i) == IF i = 1 THEN 1 ELSE r.ends[i - 1]
        field(i) == IntOf(SubSeq(s, start(i), r.ends[i] - 1))
    IN IF ~r.ok THEN NoTime
       ELSE IF r.ends[Len(fmt)] # Len(s) + 1 THEN NoTime
       ELSE LET Y == field(1)
                m == field(3)
                d == field(5)
                H == IF Len(fmt) > 5 THEN field(7) ELSE 0
                M == IF Len(fmt) > 5 THEN field(9) ELSE 0
            IN IF Y < 1 \/ d > DaysInMonth(Y, m) THEN NoTime
               ELSE [ok |-> TRUE, Y |-> Y, m |-> m, d |-> d, H |-> H, M |-> M]

\* datetime.date ordering, and datetime ordering to the minute (a parsed
\* time has no seconds, so it is <= now exactly when it is to the minute).
DateOrd(t) == (t.Y * 13 + t.m) * 32 + t.d
InstantOrd(t) == (DateOrd(t) * 24 + t.H) * 60 + t.M

\* ------------------------------------------------------------------- JSON
\* A dict is a function from its keys; the JSON document is a sequence of
\* objects, each a sequence of <<key, value>> members.
KeyOrder == <<"task", "time", "completed">>

\* A dump that writes task and time only.
JsonObject_NoCompleted(d) ==
    LET keys == SelectSeq(<<"task", "time">>, LAMBDA k : k \in DOMAIN d)
    IN [j \in 1..Len(keys) |-> <<keys[j], d[keys[j]]>>]

JsonObject(d) ==
    LET keys == SelectSeq(KeyOrder, LAMBDA k : k \in DOMAIN d)
    IN [j \in 1..Len(keys) |-> <<keys[j], d[keys[j]]>>]

\* json.dump(tasks, f)
JsonDump(tasks) == [i \in 1..Len(tasks) |-> JsonObject(tasks[i])]

JsonDict(ms) ==
    [k \in {ms[j][1] : j \in 1..Len(ms)} |->
        ms[CHOOSE j \in 1..Len(ms) :
              /\ ms[j][1] = k
              /\ \A j2 \in 1..Len(ms) : ms[j2][1] = k => j2 <= j][2]]

\* json.load(f)
JsonLoad(doc) == [i \in 1..Len(doc) |-> JsonDict(doc[i])]

\* -------------------------------------------------------- ReminderManager
\* A load that defaults a missing `completed` to TRUE.
WithCompleted_True(task) ==
    IF "completed" \in DOMAIN task THEN task
    ELSE [k \in DOMAIN task \cup {"completed"} |->
             IF k = "completed" THEN TRUE ELSE task[k]]

WithCompleted(task) ==
    IF "completed" \in DOMAIN task THEN task
    ELSE [k \in DOMAIN task \cup {"completed"} |->
             IF k = "completed" THEN FALSE ELSE task[k]]

\* ReminderManager.load: the value returned for a file.
RemLoadOf(file) ==
    IF ~file.exists THEN <<>>
    ELSE LET data == JsonLoad(file.data)
         IN [i \in 1..Len(data) |-> WithCompleted(data[i])]

\* ReminderManager.save: the file written for tasks.
RemSaveOf(tasks) == FileOf(JsonDump(tasks))

NewReminder(task_text, date_time) ==
    [task |-> strip(task_text), time |-> date_time, completed |-> FALSE]

\* ReminderManager.add: the file after add, from the file before it.
RemAddOf(file, task_text, date_time) ==
    RemSaveOf(Append(RemLoadOf(file), NewReminder(task_text, date_time)))

\* A loop body without the date-only second attempt.
DueOne_NoDateFallback(task, now) ==
    IF task.completed THEN <<>>
    ELSE LET t1 == strptime(task.time, FMT_DATETIME)
         IN IF t1.ok /\ InstantOrd(t1) <= InstantOrd(now) THEN <<task.task>> ELSE <<>>

\* A loop body that does not look at `completed`.
DueOne_IgnoreCompleted(task, now) ==
    LET t1 == strptime(task.time, FMT_DATETIME)
    IN IF t1.ok
       THEN (IF InstantOrd(t1) <= InstantOrd(now) THEN <<task.task>> ELSE <<>>)
       ELSE LET t2 == strptime(task.time, FMT_DATE)
            IN IF t2.ok /\ DateOrd(t2) <= DateOrd(now) THEN <<task.task>> ELSE <<>>

\* The body of the loop of check_reminders for one task: what it appends.
DueOne(task, now) ==
    IF task.completed THEN <<>>
    ELSE LET t1 == strptime(task.time, FMT_DATETIME)
         IN IF t1.ok
            THEN (IF InstantOrd(t1) <= InstantOrd(now) THEN <<task.task>> ELSE <<>>)
            ELSE LET t2 == strptime(task.time, FMT_DATE)
                 IN IF t2.ok
                    THEN (IF DateOrd(t2) <= DateOrd(now) THEN <<task.task>> ELSE <<>>)
                    ELSE <<>>

RECURSIVE Notifications(_, _)
Notifications(tasks, now) ==
    IF tasks = <<>> THEN <<>>
    ELSE DueOne(Head(tasks), now) \o Notifications(Tail(tasks), now)

\* ReminderManager.check_reminders with datetime.now() = now.
CheckRemindersOf(file, now) == Notifications(RemLoadOf(file), now)

\* ----------------------------------------------------------------- inputs
\* Texts the explored callers pass in.  "2024-06-01" is the day of the
\* clock readings of NowInputs.
Y2024 == <<"2", "0", "2", "4">>
Y2099 == <<"2", "0", "9", "9">>
D_01_01 == <<"-", "0", "1", "-", "0", "1">>
D_06_01 == <<"-", "0", "6", "-", "0", "1">>
H_09_00 == <<" ", "0", "9", ":", "0", "0">>

T_PastDT == Y2024 \o D_01_01 \o H_09_00
T_FutureDT == Y2099 \o D_01_01 \o H_09_00
T_PastD == Y2024 \o D_01_01
T_TodayD == Y2024 \o D_06_01
T_TodayDT == Y2024 \o D_06_01 \o H_09_00
T_Junk == <<"n", "o", "t", "-", "a", "-", "d", "a", "t", "e">>
T_Feb30DT == Y2024 \o <<"-", "0", "2", "-", "3", "0">> \o H_09_00
T_Unpadded == Y2024 \o <<"-", "1", "-", "1", " ", " ", "9", ":", "5">>

At_(Y, m, d, H, M) == [ok |-> TRUE, Y |-> Y, m |-> m, d |-> d, H |-> H, M |-> M]

\* Readings of datetime.datetime.now(), to the minute.
NowInputs == {At_(2024, 6, 1, 0, 0), At_(2024, 6, 1, 12, 0), At_(2023, 12, 31, 23, 59)}

TaskInputs == {<<"a">>, <<" ", "b", " ">>, <<" ">>}
TimeInputs == {T_PastDT, T_TodayD, T_Junk}

\* Sequences over S of length at most n.
SeqsUpTo(S, n) == UNION {[1..k -> S] : k \in 0..n}

\* Records a caller hands to save: valid reminders, `completed` optional.
SaveRecords ==
    { [task |-> <<"a">>, time |-> T_PastDT],
      [task |-> <<"a">>, time |-> T_PastDT, completed |-> TRUE],
      [task |-> <<"b">>, time |-> T_TodayD, completed |-> FALSE] }

SaveInputs == SeqsUpTo(SaveRecords, MaxRem)

Returned(v) == [exc |-> "", val |-> v]
Raised(e) == [exc |-> e, val |-> <<>>]

\* ------------------------------------------------- reminder operations
\* A load that writes an empty list when it finds no file.
RemLoad_Creating ==
    /\ page = PAGE_REMINDERS
    /\ remFile' = IF remFile.exists THEN remFile ELSE RemSaveOf(<<>>)
    /\ op' = "rem_load"
    /\ arg' = <<>>
    /\ ret' = Returned(RemLoadOf(remFile))
    /\ UNCHANGED <<others, page, expFile>>

\* rm.load()
RemLoad ==
    /\ page = PAGE_REMINDERS
    /\ op' = "rem_load"
    /\ arg' = <<>>
    /\ ret' = Returned(RemLoadOf(remFile))
    /\ UNCHANGED <<others, page, remFile, expFile>>

\* rm.save(tasks)
RemSave(tasks) ==
    /\ page = PAGE_REMINDERS
    /\ remFile' = RemSaveOf(tasks)
    /\ op' = "rem_save"
    /\ arg' = <<tasks>>
    /\ ret' = Returned(<<>>)
    /\ UNCHANGED <<others, page, expFile>>

\* rm.add(task_text, date_time)
RemAdd(task_text, date_time) ==
    /\ page = PAGE_REMINDERS
    /\ Len(RemLoadOf(remFile)) < MaxRem
    /\ remFile' = RemAddOf(remFile, task_text, date_time)
    /\ op' = "rem_add"
    /\ arg' = <<task_text, date_time>>
    /\ ret' = Returned(<<>>)
    /\ UNCHANGED <<others, page, expFile>>

\* rm.check_reminders() when the clock reads now
RemCheck(now) ==
    /\ page = PAGE_REMINDERS
    /\ op' = "rem_check"
    /\ arg' = <<now>>
    /\ ret' = Returned(CheckRemindersOf(remFile, now))
    /\ UNCHANGED <<others, page, remFile, expFile>>

\* show_reminders: the rows displayed under a view, as indices into tasks.
Views == {"All", "Pending", "Completed"}

FilteredRows(tasks, view) ==
    SelectSeq([i \in 1..Len(tasks) |-> i],
              LAMBDA i : CASE view = "Pending" -> ~tasks[i].completed
                           [] view = "Completed" -> tasks[i].completed
                           [] OTHER -> TRUE)

\* A Toggle that takes the row number as a position in tasks.
ToggledTasks_ByRow(tasks, view, row) ==
    [tasks EXCEPT ![row] = [@ EXCEPT !.completed = ~@]]

\* The Toggle handler: the displayed task is the dict held in tasks, so the
\* flip lands in tasks, which is then saved whole.
ToggledTasks(tasks, view, row) ==
    LET i == FilteredRows(tasks, view)[row]
    IN [tasks EXCEPT ![i] = [@ EXCEPT !.completed = ~@]]

\* show_reminders with the Toggle button of row `row` pressed under `view`
UiToggle(view, row) ==
    LET tasks == RemLoadOf(remFile)
    IN /\ page = PAGE_REMINDERS
       /\ tasks # <<>>
       /\ row \in 1..Len(FilteredRows(tasks, view))
       /\ remFile' = RemSaveOf(ToggledTasks(tasks, view, row))
       /\ op' = "ui_toggle"
       /\ arg' = <<view, row>>
       /\ ret' = Returned(<<>>)
       /\ UNCHANGED <<others, page, expFile>>

\* What the Add Reminder form can hold: any text, the empty one included,
\* and a date and time the pickers format as "%Y-%m-%d %H:%M".
UiTaskInputs == {<<"a">>, <<" ">>, <<>>}
UiTimeInputs == {T_PastDT}

\* show_reminders with the Add Reminder button pressed: add runs only when
\* task_text is truthy, that is, not the empty string.
UiAddReminder(task_text, date_str) ==
    /\ page = PAGE_REMINDERS
    /\ Len(RemLoadOf(remFile)) < MaxRem
    /\ remFile' = IF task_text # <<>> THEN RemAddOf(remFile, task_text, date_str)
                  ELSE remFile
    /\ op' = "ui_add_reminder"
    /\ arg' = <<task_text, date_str>>
    /\ ret' = Returned(<<>>)
    /\ UNCHANGED <<others, page, expFile>>

RemNext ==
    \/ RemLoad
    \/ \E tasks \in SaveInputs : RemSave(tasks)
    \/ \E t \in TaskInputs, d \in TimeInputs : RemAdd(t, d)
    \/ \E now \in NowInputs : RemCheck(now)
    \/ \E view \in Views, row \in 1..MaxRem : UiToggle(view, row)
    \/ \E t \in UiTaskInputs, d \in UiTimeInputs : UiAddReminder(t, d)

\* ---------------------------------------------------------------- numbers
DigitChar(d) ==
    CASE d = 0 -> "0" [] d = 1 -> "1" [] d = 2 -> "2" [] d = 3 -> "3"
      [] d = 4 -> "4" [] d = 5 -> "5" [] d = 6 -> "6" [] d = 7 -> "7"
      [] d = 8 -> "8" [] d = 9 -> "9"

\* str() of a natural number.
RECURSIVE NatText(_)
NatText(n) ==
    IF n < 10 THEN <<DigitChar(n)>> ELSE NatText(n \div 10) \o <<DigitChar(n % 10)>>

AllDigits(s) == \A i \in 1..Len(s) : s[i] \in Digit

\* A decimal literal [sign] digits [. digits] with at least one digit:
\* whether it is one, whether it has no point, and its value in hundredths.
NoNumber == [ok |-> FALSE, isInt |-> FALSE, v |-> 0]

ScanNumber(s) ==
    LET signed == s # <<>> /\ Head(s) \in {"-", "+"}
        body == IF signed THEN Tail(s) ELSE s
        dots == {i \in 1..Len(body) : body[i] = "."}
        dot == IF dots = {} THEN Len(body) + 1 ELSE Min(dots)
        ip == SubSeq(body, 1, dot - 1)
        fp == SubSeq(body, dot + 1, Len(body))
        frac == IF fp = <<>> THEN 0
                ELSE IF Len(fp) = 1 THEN DigitVal(fp[1]) * 10
                ELSE DigitVal(fp[1]) * 10 + DigitVal(fp[2])
        mag == IntOf(ip) * 100 + frac
    IN IF ~(AllDigits(ip) /\ AllDigits(fp)) \/ Len(ip) + Len(fp) = 0 THEN NoNumber
       ELSE [ok |-> TRUE, isInt |-> dots = {},
             v |-> IF signed /\ Head(s) = "-" THEN 0 - mag ELSE mag]

\* float(x): surrounding blanks are ignored; ok is FALSE where it raises
\* ValueError.
PyFloat(x) == ScanNumber(strip(x))

\* ------------------------------------------------------------ DataFrame
\* A cell of a DataFrame: a str, an int, a float or NaN (n in hundredths).
StrVal(s) == [t |-> "str", s |-> s, n |-> 0]
IntVal(n) == [t |-> "int", s |-> <<>>, n |-> n]
FloatVal(n) == [t |-> "float", s |-> <<>>, n |-> n]
NaN == [t |-> "nan", s |-> <<>>, n |-> 0]

COLUMNS == <<"Item", "Amount", "Date">>

DataFrame(columns, rows) == [columns |-> columns, rows |-> rows]

\* expenses.csv when it does not exist
AbsentCsv == [exists |-> FALSE, data |-> [header |-> <<>>, rows |-> <<>>]]

\* repr of a float
FloatText(n) ==
    LET a == IF n < 0 THEN 0 - n ELSE n
        fr == a % 100
    IN (IF n < 0 THEN <<"-">> ELSE <<>>) \o NatText(a \div 100) \o <<".">>
       \o (IF fr % 10 = 0 THEN <<DigitChar(fr \div 10)>>
           ELSE <<DigitChar(fr \div 10), DigitChar(fr % 10)>>)

IntText(n) ==
    IF n < 0 THEN <<"-">> \o NatText((0 - n) \div 100) ELSE NatText(n \div 100)

\* to_csv: the text written for one cell (na_rep is the empty string).
CsvCell(v) ==
    CASE v.t = "str" -> v.s
      [] v.t = "int" -> IntText(v.n)
      [] v.t = "float" -> FloatText(v.n)
      [] OTHER -> <<>>

\* df.to_csv(path, index=False)
ToCsv(df) ==
    FileOf([header |-> df.columns,
            rows |-> [i \in 1..Len(df.rows) |->
                        [j \in 1..Len(df.columns) |-> CsvCell(df.rows[i][df.columns[j]])]]])

\* read_csv's default na_values among the texts used here.
NaTexts == {<<>>, <<"N", "A">>, <<"N", "a", "N">>, <<"n", "a", "n">>,
            <<"n", "u", "l", "l">>}

\* read_csv's inference for one column: int64 when every cell is an integer
\* literal, float64 when every cell is a number or missing, object otherwise;
\* a missing cell reads as NaN.
ReadColumn(cells) ==
    LET num(i) == ScanNumber(cells[i])
        na(i) == cells[i] \in NaTexts
        I == 1..Len(cells)
    IN IF \A i \in I : ~na(i) /\ num(i).ok /\ num(i).isInt
       THEN [i \in I |-> IntVal(num(i).v)]
       ELSE IF \A i \in I : na(i) \/ num(i).ok
       THEN [i \in I |-> IF na(i) THEN NaN ELSE FloatVal(num(i).v)]
       ELSE [i \in I |-> IF na(i) THEN NaN ELSE StrVal(cells[i])]

\* pd.read_csv(path) of an existing file
ReadCsv(data) ==
    LET cols == [j \in 1..Len(data.header) |->
                    ReadColumn([i \in 1..Len(data.rows) |-> data.rows[i][j]])]
        at(i) == [c \in {data.header[j] : j \in 1..Len(data.header)} |->
                    cols[CHOOSE j \in 1..Len(data.header) : data.header[j] = c][i]]
    IN DataFrame(data.header, [i \in 1..Len(data.rows) |-> at(i)])

\* --------------------------------------------------------- ExpenseManager
\* ExpenseManager.load: the value returned for a file.
ExpLoadOf(file) ==
    IF ~file.exists THEN DataFrame(COLUMNS, <<>>) ELSE ReadCsv(file.data)

\* ExpenseManager.save: the file written for df.
ExpSaveOf(df) == ToCsv(df)

NewRow(item, amount, date_str) ==
    [Item |-> StrVal(item), Amount |-> FloatVal(amount), Date |-> StrVal(date_str)]

\* An add that saves the loaded table before it converts the amount.
ExpAddOf_SaveBeforeFloat(file, item, amount, date_str) ==
    LET df == ExpLoadOf(file)
        f == PyFloat(amount)
    IN IF ~f.ok THEN [exc |-> "ValueError", file |-> ToCsv(df)]
       ELSE [exc |-> "",
             file |-> ToCsv(DataFrame(df.columns,
                                      Append(df.rows, NewRow(item, f.v, date_str))))]

\* ExpenseManager.add: the outcome and the file after it.  float(amount) is
\* evaluated while new_row is built, after load and before save.
ExpAddOf(file, item, amount, date_str) ==
    LET df == ExpLoadOf(file)
        f == PyFloat(amount)
    IN IF ~f.ok THEN [exc |-> "ValueError", file |-> file]
       ELSE [exc |-> "",
             file |-> ExpSaveOf(DataFrame(df.columns,
                                          Append(df.rows, NewRow(item, f.v, date_str))))]

RECURSIVE SumAmount(_)
SumAmount(rows) ==
    IF rows = <<>> THEN 0 ELSE Head(rows).Amount.n + SumAmount(Tail(rows))

\* A scan that keeps the last extreme row.
RECURSIVE IdxScan_LastExtreme(_, _, _, _)
IdxScan_LastExtreme(rows, i, best, dir) ==
    IF i > Len(rows) THEN best
    ELSE IdxScan_LastExtreme(rows, i + 1,
                 IF dir * rows[i].Amount.n >= dir * rows[best].Amount.n THEN i ELSE best,
                 dir)

\* Series.idxmax (dir = 1) and Series.idxmin (dir = -1): a left-to-right
\* scan that keeps the first extreme row.
RECURSIVE IdxScan(_, _, _, _)
IdxScan(rows, i, best, dir) ==
    IF i > Len(rows) THEN best
    ELSE IdxScan(rows, i + 1,
                 IF dir * rows[i].Amount.n > dir * rows[best].Amount.n THEN i ELSE best,
                 dir)

idxmax(rows) == IdxScan(rows, 2, 1, 1)
idxmin(rows) == IdxScan(rows, 2, 1, -1)

\* f"{num/den:.2f}" in hundredths: the nearest hundredth.  An exact half
\* depends on the binary value of the quotient, so `up` chooses its side.
Format2f(num, den, up) ==
    LET q == num \div den
        r == num % den
    IN IF 2 * r < den THEN q
       ELSE IF 2 * r > den THEN q + 1
       ELSE IF up THEN q + 1 ELSE q

\* One line of the insights: which f-string, and the values it formats.
Line(kind, item, val) == [kind |-> kind, item |-> item, val |-> val]
NO_DATA == Line("No expenses yet to analyze", NaN, 0)

\* ExpenseManager.get_spending_insights: the list returned for a file.
InsightsOf(file, up) ==
    LET rows == ExpLoadOf(file).rows
        total == SumAmount(rows)
        max_item == rows[idxmax(rows)]
        min_item == rows[idxmin(rows)]
    IN IF rows = <<>> THEN <<NO_DATA>>
       ELSE << Line("Total spent", NaN, Format2f(total, 1, up)),
               Line("Average per expense", NaN, Format2f(total, Len(rows), up)),
               Line("Total expenses", NaN, Len(rows)),
               Line("Most expensive", max_item.Item, Format2f(max_item.Amount.n, 1, up)),
               Line("Cheapest", min_item.Item, Format2f(min_item.Amount.n, 1, up)) >>

\* -------------------------------------------------- expense operations
\* Most rows expenses.csv holds in the explored sessions.
MaxExp == 2

ITEM_TEA == <<"T", "e", "a">>
ITEM_NA == <<"N", "A">>
ITEM_7 == <<"7">>
ItemInputs == {ITEM_TEA, ITEM_NA, ITEM_7}
AmountInputs == {<<"2", "0">>, <<"1", "5", "0">>, <<"-", "5">>, <<" ", "0", ".", "0", "5">>,
                 <<"a", "b", "c">>, <<>>}
DateInputs == {T_TodayD}

\* em.load()
ExpLoad ==
    /\ page = PAGE_EXPENSES
    /\ op' = "exp_load"
    /\ arg' = <<>>
    /\ ret' = Returned(ExpLoadOf(expFile))
    /\ UNCHANGED <<others, page, remFile, expFile>>

\* em.add(item, amount, date_str)
ExpAdd(item, amount, date_str) ==
    LET r == ExpAddOf(expFile, item, amount, date_str)
    IN /\ page = PAGE_EXPENSES
       /\ Len(ExpLoadOf(expFile).rows) < MaxExp
       /\ expFile' = r.file
       /\ op' = "exp_add"
       /\ arg' = <<item, amount, date_str>>
       /\ ret' = IF r.exc = "" THEN Returned(<<>>) ELSE Raised(r.exc)
       /\ UNCHANGED <<others, page, remFile>>

\* em.get_spending_insights()
ExpInsights(up) ==
    /\ page = PAGE_EXPENSES
    /\ op' = "exp_insights"
    /\ arg' = <<>>
    /\ ret' = Returned(InsightsOf(expFile, up))
    /\ UNCHANGED <<others, page, remFile, expFile>>

\* What the Add Expense form can hold: any item and date text, the empty
\* ones included, and an amount the number input keeps at or above its
\* min_value of 0.0 (in hundredths).
UiItemInputs == {ITEM_TEA, <<>>}
UiAmountInputs == {0, 2000}
UiDateInputs == {T_TodayD, T_Junk, <<>>}

\* The form's date check: ten characters with "-" at [4] and [7].
LooksLikeDate(date_input) ==
    /\ Len(date_input) = 10
    /\ date_input[5] = "-"
    /\ date_input[8] = "-"

DATE_FORMAT_ERROR == "Date must be in YYYY-MM-DD format"

\* em.add(item, amount, date_input) with amount already a float: float()
\* of a float is that float, so the conversion cannot raise.
ExpAddFloatOf(file, item, amount, date_str) ==
    LET df == ExpLoadOf(file)
    IN ExpSaveOf(DataFrame(df.columns, Append(df.rows, NewRow(item, amount, date_str))))

\* show_expenses with the Add Expense button pressed.
UiAddExpense(item, amount, date_input) ==
    LET filled == item # <<>> /\ amount > 0 /\ date_input # <<>>
    IN /\ page = PAGE_EXPENSES
       /\ Len(ExpLoadOf(expFile).rows) < MaxExp
       /\ expFile' = IF filled /\ LooksLikeDate(date_input)
                     THEN ExpAddFloatOf(expFile, item, amount, date_input)
                     ELSE expFile
       /\ op' = "ui_add_expense"
       /\ arg' = <<item, amount, date_input>>
       /\ ret' = IF filled /\ ~LooksLikeDate(date_input)
                 THEN Returned(<<DATE_FORMAT_ERROR>>)
                 ELSE Returned(<<>>)
       /\ UNCHANGED <<others, page, remFile>>

ExpNext ==
    \/ ExpLoad
    \/ \E i \in ItemInputs, a \in AmountInputs, d \in DateInputs : ExpAdd(i, a, d)
    \/ \E up \in BOOLEAN : ExpInsights(up)
    \/ \E i \in UiItemInputs, a \in UiAmountInputs, d \in UiDateInputs :
          UiAddExpense(i, a, d)

\* ----------------------------------------------------- idle components
Procs == {1, 2}

\* One load-mutate-save cycle: add(a, b) on reminders, add(a, b, c) on
\* expenses, or the Toggle button of row `row` under view `view`.
Cycle(kind, a, b, c, view, row) ==
    [kind |-> kind, a |-> a, b |-> b, c |-> c, view |-> view, row |-> row]

NoCycle == Cycle("none", <<>>, <<>>, <<>>, "", 0)

IdleProcs ==
    [p \in Procs |-> [pc |-> "idle", cycle |-> NoCycle, before |-> <<>>,
                      local |-> <<>>, seen |-> 0]]

\* A reply's JSON as far as the programs read it: cod, main.temp and
\* weather[0].description of a weather reply; whether a news reply has
\* "results", and how many articles.
Reply(cod, temp, description, hasResults, n) ==
    [cod |-> cod, temp |-> temp, description |-> description,
     hasResults |-> hasResults, n |-> n]

NoReply == Reply(0, 0, "", FALSE, 0)
NoKeys == [weather |-> FALSE, news |-> FALSE]

NoProg == [name |-> "none", pc |-> "off", out |-> <<>>, bound |-> {}, exc |-> "",
           data |-> NoReply, keys |-> NoKeys, clicked |-> "", city |-> ""]

Idle == procs = IdleProcs /\ saved = <<>> /\ prog = NoProg

\* ------------------------------------------------------ the specification
\* A session on one page of the dashboard.  The two managers share nothing
\* (separate files, no common state), so a session is explored per page.
Init ==
    /\ page \in {PAGE_REMINDERS, PAGE_EXPENSES}
    /\ remFile = AbsentFile
    /\ expFile = AbsentCsv
    /\ op = "init"
    /\ arg = <<>>
    /\ ret = Returned(<<>>)
    /\ Idle

Next == RemNext \/ ExpNext

Spec == Init /\ [][Next]_vars

\* --------------------------------------------- check_reminders on any file
\* check_reminders is a function of the file and the clock: DueSpec starts
\* from every file of at most MaxDue reminders over DueRecords, and from the
\* four-reminder file of the documented example, and applies it.
MaxDue == 2

DueTimes == {T_PastDT, T_FutureDT, T_PastD, T_TodayD, T_TodayDT,
             T_Junk, T_Feb30DT, T_Unpadded}

DueRecords ==
    [task : {<<"a">>, <<"b">>}, time : DueTimes, completed : BOOLEAN]

EXAMPLE_TASKS ==
    << [task |-> <<"a">>, time |-> T_PastDT, completed |-> FALSE],
       [task |-> <<"b">>, time |-> T_FutureDT, completed |-> FALSE],
       [task |-> <<"c">>, time |-> T_PastD, completed |-> FALSE],
       [task |-> <<"d">>, time |-> T_Junk, completed |-> FALSE] >>

DueInit ==
    /\ page = PAGE_REMINDERS
    /\ remFile \in {RemSaveOf(ts) : ts \in SeqsUpTo(DueRecords, MaxDue) \cup {EXAMPLE_TASKS}}
    /\ expFile = AbsentCsv
    /\ op = "init"
    /\ arg = <<>>
    /\ ret = Returned(<<>>)
    /\ Idle

DueNext ==
    \/ RemLoad
    \/ \E now \in NowInputs : RemCheck(now)

DueSpec == DueInit /\ [][DueNext]_vars

\* ------------------------------------------- two load-mutate-save cycles
\* Nothing locks either file, so between the load and the save of one cycle
\* (add: load, append, save; Toggle: load at the start of the script run,
\* flip, save) another process or script run may load or save.  Each of two
\* callers runs one cycle on the store of the page; seen records how many
\* saves had happened when the caller loaded.
RaceCycles ==
    IF page = PAGE_REMINDERS
    THEN {Cycle("add", t, T_PastDT, <<>>, "", 0) : t \in {<<"a">>, <<" ", "b", " ">>}}
         \cup {Cycle("toggle", <<>>, <<>>, <<>>, v, 1) : v \in Views}
    ELSE {Cycle("add", i, a, T_PastD, "", 0) :
              i \in {ITEM_TEA, ITEM_NA}, a \in {<<"2", "0">>, <<"1", "5", "0">>}}

StoreFile == IF page = PAGE_REMINDERS THEN remFile ELSE expFile

LoadedOf(file) == IF page = PAGE_REMINDERS THEN RemLoadOf(file) ELSE ExpLoadOf(file)

SavedOf(local) == IF page = PAGE_REMINDERS THEN RemSaveOf(local) ELSE ExpSaveOf(local)

\* Whether the cycle's mutation applies to what was loaded (the Toggle
\* button of a row exists only when the row is displayed).
CanMutate(c, loaded) ==
    c.kind = "toggle" => c.row \in 1..Len(FilteredRows(loaded, c.view))

\* The in-memory mutation of the cycle: the append of add, the flip of Toggle.
MutateOf(c, loaded) ==
    IF page = PAGE_REMINDERS
    THEN (IF c.kind = "add" THEN Append(loaded, NewReminder(c.a, c.b))
          ELSE ToggledTasks(loaded, c.view, c.row))
    ELSE DataFrame(loaded.columns,
                   Append(loaded.rows, NewRow(c.a, PyFloat(c.b).v, c.c)))

\* load and the mutation in memory
RaceLoad(p, c) ==
    LET loaded == LoadedOf(StoreFile)
    IN /\ procs[p].pc = "idle"
       /\ CanMutate(c, loaded)
       /\ procs' = [procs EXCEPT ![p] = [pc |-> "loaded", cycle |-> c, before |-> loaded,
                                         local |-> MutateOf(c, loaded),
                                         seen |-> Len(saved)]]
       /\ UNCHANGED <<page, remFile, expFile, op, arg, ret, saved, prog>>

\* A save that loads again and redoes the mutation on what it finds.
RaceSave_Reloading(p) ==
    LET merged == MutateOf(procs[p].cycle, LoadedOf(StoreFile))
    IN /\ procs[p].pc = "loaded"
       /\ CanMutate(procs[p].cycle, LoadedOf(StoreFile))
       /\ IF page = PAGE_REMINDERS
          THEN remFile' = SavedOf(merged) /\ UNCHANGED expFile
          ELSE expFile' = SavedOf(merged) /\ UNCHANGED remFile
       /\ procs' = [procs EXCEPT ![p].pc = "done"]
       /\ saved' = Append(saved, p)
       /\ UNCHANGED <<page, op, arg, ret, prog>>

\* save: the whole file is overwritten with the caller's collection
RaceSave(p) ==
    /\ procs[p].pc = "loaded"
    /\ IF page = PAGE_REMINDERS
       THEN remFile' = SavedOf(procs[p].local) /\ UNCHANGED expFile
       ELSE expFile' = SavedOf(procs[p].local) /\ UNCHANGED remFile
    /\ procs' = [procs EXCEPT ![p].pc = "done"]
    /\ saved' = Append(saved, p)
    /\ UNCHANGED <<page, op, arg, ret, prog>>

BASE_TASKS == << [task |-> <<"c">>, time |-> T_PastDT, completed |-> FALSE] >>
BASE_ROWS == << NewRow(ITEM_TEA, 2000, T_PastD) >>

RaceInit ==
    /\ page \in {PAGE_REMINDERS, PAGE_EXPENSES}
    /\ remFile \in {AbsentFile} \cup
                   (IF page = PAGE_REMINDERS THEN {RemSaveOf(BASE_TASKS)} ELSE {})
    /\ expFile \in {AbsentCsv} \cup
                   (IF page = PAGE_EXPENSES
                    THEN {ExpSaveOf(DataFrame(COLUMNS, BASE_ROWS))} ELSE {})
    /\ op = "init"
    /\ arg = <<>>
    /\ ret = Returned(<<>>)
    /\ Idle

RaceNext ==
    \/ \E p \in Procs : \E c \in RaceCycles : RaceLoad(p, c)
    \/ \E p \in Procs : RaceSave(p)

RaceSpec == RaceInit /\ [][RaceNext]_vars

\* ------------------------------------------------ weather and news callers
\* The outcomes of requests.get(url).json(): a reply, or an exception
\* (no connection, a body that is not JSON).
WeatherReplies ==
    {Reply(200, 21, "Clear Sky", FALSE, 0), Reply(200, 30, "Light Rain", FALSE, 0),
     Reply(404, 0, "", FALSE, 0), Reply(401, 0, "", FALSE, 0)}

CityInputs == {"Bangalore", "Atlantis"}

\* Most articles a news reply carries.
MaxArticles == 6

NewsReplies ==
    {Reply(0, 0, "", TRUE, n) : n \in 0..MaxArticles} \cup {Reply(0, 0, "", FALSE, 0)}

Outcomes(replies) == [raised : {FALSE}, reply : replies] \cup {[raised |-> TRUE, reply |-> NoReply]}

Repeat(x, n) == [i \in 1..n |-> x]
FirstFive(n) == IF n < 5 THEN n ELSE 5

Crash(e) == [prog EXCEPT !.exc = e, !.pc = "crashed"]

ProgStep(next) == prog' = next /\ UNCHANGED <<page, remFile, expFile, op, arg, ret, procs, saved>>

\* Morning_brief, lines 6-13: the greeting, the date and the time
BriefGreeting ==
    /\ prog.name = "Morning_brief" /\ prog.pc = "L6"
    /\ ProgStep([prog EXCEPT !.pc = "L19",
                             !.out = @ \o <<"Good Morning!", "Date", "Time">>])

\* lines 16-21: the Weather heading and input('Enter the city: ')
BriefInputCity(city) ==
    /\ prog.name = "Morning_brief" /\ prog.pc = "L19"
    /\ ProgStep([prog EXCEPT !.pc = "L23", !.out = @ \o <<"Weather">>,
                             !.city = city, !.bound = @ \cup {"city_name"}])

\* line 23: response = requests.get(url)
BriefGetResponse(o) ==
    /\ prog.name = "Morning_brief" /\ prog.pc = "L23"
    /\ ProgStep(IF o.raised THEN Crash("ConnectionError")
                ELSE [prog EXCEPT !.pc = "L24", !.bound = @ \cup {"response"}])

\* line 24: weather_data = requests.get(url).json()
BriefGetWeather(o) ==
    /\ prog.name = "Morning_brief" /\ prog.pc = "L24"
    /\ ProgStep(IF o.raised THEN Crash("ConnectionError")
                ELSE [prog EXCEPT !.pc = "L26", !.data = o.reply,
                                  !.bound = @ \cup {"weather_data"}])

\* lines 26-33: the fallback message, or the three assignments of the else
BriefWeatherBranch ==
    /\ prog.name = "Morning_brief" /\ prog.pc = "L26"
    /\ ProgStep(IF prog.data.cod # 200
                THEN [prog EXCEPT !.pc = "L50",
                                  !.out = @ \o <<"City not found! Please check spelling.">>]
                ELSE [prog EXCEPT !.pc = "L50",
                                  !.bound = @ \cup {"temperature", "condition",
                                                    "main_condition"}])

\* line 50: emoji = weather_emojis.get(condition, ...), outside the else
BriefEmoji ==
    /\ prog.name = "Morning_brief" /\ prog.pc = "L50"
    /\ ProgStep(IF "condition" \notin prog.bound THEN Crash("NameError")
                ELSE [prog EXCEPT !.pc = "L52", !.bound = @ \cup {"emoji"}])

\* lines 52-57: the two weather lines and the Live News heading
BriefPrintWeather ==
    /\ prog.name = "Morning_brief" /\ prog.pc = "L52"
    /\ ProgStep(IF "temperature" \notin prog.bound THEN Crash("NameError")
                ELSE [prog EXCEPT !.pc = "L62",
                                  !.out = @ \o <<"Temperature", "Condition", "Live News">>])

\* lines 62-64: the news request and news_data["results"][:5]
BriefGetNews(o) ==
    /\ prog.name = "Morning_brief" /\ prog.pc = "L62"
    /\ ProgStep(IF o.raised THEN Crash("ConnectionError")
                ELSE IF ~o.reply.hasResults THEN Crash("KeyError")
                ELSE [prog EXCEPT !.pc = "L66", !.data = o.reply,
                                  !.bound = @ \cup {"articles"}])

\* lines 66-69: the headlines
BriefPrintNews ==
    /\ prog.name = "Morning_brief" /\ prog.pc = "L66"
    /\ ProgStep([prog EXCEPT !.pc = "end",
                             !.out = @ \o <<"Top News Headlines:">>
                                       \o Repeat("headline", FirstFive(prog.data.n))])

\* show_weather_news, lines 441-461: the weather section of one script run
HubWeather(o) ==
    /\ prog.name = "show_weather_news" /\ prog.pc = "L441"
    /\ ProgStep(
         IF ~(prog.clicked = "Get Weather" /\ prog.keys.weather)
         THEN [prog EXCEPT !.pc = "L468"]
         ELSE IF o.raised
         THEN [prog EXCEPT !.pc = "L468", !.out = @ \o <<"Weather service unavailable">>]
         ELSE IF o.reply.cod = 200
         THEN [prog EXCEPT !.pc = "L468", !.data = o.reply,
                           !.out = @ \o <<"Temperature", "Humidity", "Condition">>]
         ELSE [prog EXCEPT !.pc = "L468", !.data = o.reply,
                           !.out = @ \o <<"City not found">>])

\* lines 463-479: the news section
HubNews(o) ==
    /\ prog.name = "show_weather_news" /\ prog.pc = "L468"
    /\ ProgStep(
         IF ~(prog.clicked = "Get News" /\ prog.keys.news)
         THEN [prog EXCEPT !.pc = "end", !.out = @ \o <<"Latest News">>]
         ELSE IF o.raised
         THEN [prog EXCEPT !.pc = "end",
                           !.out = @ \o <<"Latest News", "News service unavailable">>]
         ELSE [prog EXCEPT !.pc = "end", !.data = o.reply,
                           !.out = @ \o <<"Latest News">>
                                     \o Repeat("article", FirstFive(o.reply.n))])

\* A run of the script, or a script run of the page with one button (or
\* none) pressed and each API key set or missing in the environment.
ExtInit ==
    /\ page = PAGE_REMINDERS
    /\ remFile = AbsentFile
    /\ expFile = AbsentCsv
    /\ op = "init"
    /\ arg = <<>>
    /\ ret = Returned(<<>>)
    /\ procs = IdleProcs
    /\ saved = <<>>
    /\ \/ prog = [NoProg EXCEPT !.name = "Morning_brief", !.pc = "L6",
                                !.keys = [weather |-> TRUE, news |-> TRUE]]
       \/ \E b \in {"", "Get Weather", "Get News"}, kw \in BOOLEAN, kn \in BOOLEAN,
             c \in CityInputs :
             prog = [NoProg EXCEPT !.name = "show_weather_news", !.pc = "L441",
                                   !.clicked = b, !.city = c,
                                   !.keys = [weather |-> kw, news |-> kn]]

ExtNext ==
    \/ BriefGreeting
    \/ \E c \in CityInputs : BriefInputCity(c)
    \/ \E o \in Outcomes({NoReply}) : BriefGetResponse(o)
    \/ \E o \in Outcomes(WeatherReplies) : BriefGetWeather(o)
    \/ BriefWeatherBranch
    \/ BriefEmoji
    \/ BriefPrintWeather
    \/ \E o \in Outcomes(NewsReplies) : BriefGetNews(o)
    \/ BriefPrintNews
    \/ \E o \in Outcomes(WeatherReplies) : HubWeather(o)
    \/ \E o \in Outcomes(NewsReplies) : HubNews(o)

ExtSpec == ExtInit /\ [][ExtNext]_vars

\* =================================================================== claims

\* C1: add is append-only and order-preserving for both stores: after a
\* successful add, load returns what it returned before, unchanged, followed
\* by the record just added.
C1_AddAppendsRecord ==
    [][ /\ op' = "rem_add" =>
            RemLoadOf(remFile') =
                Append(RemLoadOf(remFile), NewReminder(arg'[1], arg'[2]))
        /\ (op' = "exp_add" /\ ret'.exc = "") =>
            ExpLoadOf(expFile').rows =
                Append(ExpLoadOf(expFile).rows,
                       NewRow(arg'[1], PyFloat(arg'[2]).v, arg'[3])) ]_vars

\* C2: save(reminders) then load() gives the same records in the same order,
\* field for field, with completed = FALSE where the input omitted it.
C2_SaveLoadRoundTrip ==
    op = "rem_save" =>
        LET given == arg[1]
            loaded == RemLoadOf(remFile)
        IN /\ Len(loaded) = Len(given)
           /\ \A i \in 1..Len(given) :
                /\ DOMAIN loaded[i] = {"task", "time", "completed"}
                /\ loaded[i].task = given[i].task
                /\ loaded[i].time = given[i].time
                /\ loaded[i].completed =
                      IF "completed" \in DOMAIN given[i] THEN given[i].completed
                      ELSE FALSE

\* A save of two records, one without `completed` and one completed.
C2_Witness ==
    /\ op = "rem_save"
    /\ Len(arg[1]) = 2
    /\ "completed" \notin DOMAIN arg[1][1]
    /\ "completed" \in DOMAIN arg[1][2] /\ arg[1][2].completed

\* C6: add with a non-numeric amount raises and writes nothing: the file,
\* its absence included, is as before the call.
NonNumericInputs == {<<"a", "b", "c">>, <<>>}

C6_BadAmountNoWrite ==
    [][ (op' = "exp_add" /\ arg'[2] \in NonNumericInputs) =>
            (ret'.exc = "ValueError" /\ expFile' = expFile) ]_vars

\* A failed add on an absent file, which is still absent.
C6_Witness ==
    /\ op = "exp_add"
    /\ arg[2] \in NonNumericInputs
    /\ ret.exc = "ValueError"
    /\ ~expFile.exists

\* C8: on an absent file, load returns the empty result (an empty list; an
\* empty table with columns Item, Amount, Date), raises nothing, and neither
\* load nor check_reminders nor get_spending_insights creates the file.
C8_AbsentLoadIdempotent ==
    [][ /\ (op' \in {"rem_load", "rem_check"} /\ ~remFile.exists) =>
            (~remFile'.exists /\ ret' = Returned(<<>>))
        /\ (op' \in {"exp_load", "exp_insights"} /\ ~expFile.exists) =>
            (~expFile'.exists /\ ret'.exc = "")
        /\ (op' = "exp_load" /\ ~expFile.exists) =>
            ret'.val = DataFrame(<<"Item", "Amount", "Date">>, <<>>) ]_vars

\* A load that found no file and left none.
C8_Witness ==
    /\ op \in {"rem_load", "exp_load"}
    /\ ~remFile.exists
    /\ ~expFile.exists
    /\ ret.exc = ""

\* C9: insights is the single no-data line for an empty table; otherwise
\* five lines: total, average, row count, the first row of maximum Amount,
\* the first row of minimum Amount.
FirstWith(rows, amount) == Min({i \in 1..Len(rows) : rows[i].Amount.n = amount})

C9_InsightsLines ==
    op = "exp_insights" =>
        LET rows == ExpLoadOf(expFile).rows
            n == Len(rows)
            out == ret.val
            amounts == {rows[i].Amount.n : i \in 1..n}
            hi == CHOOSE a \in amounts : \A b \in amounts : b <= a
            lo == CHOOSE a \in amounts : \A b \in amounts : a <= b
        IN /\ ret.exc = ""
           /\ n = 0 => out = <<NO_DATA>>
           /\ n > 0 =>
                /\ Len(out) = 5
                /\ out[1].kind = "Total spent" /\ out[1].val = SumAmount(rows)
                /\ out[2].kind = "Average per expense"
                /\ 2 * (out[2].val * n - SumAmount(rows)) <= n
                /\ 2 * (SumAmount(rows) - out[2].val * n) <= n
                /\ out[3].kind = "Total expenses" /\ out[3].val = n
                /\ out[4].kind = "Most expensive"
                /\ out[4].item = rows[FirstWith(rows, hi)].Item /\ out[4].val = hi
                /\ out[5].kind = "Cheapest"
                /\ out[5].item = rows[FirstWith(rows, lo)].Item /\ out[5].val = lo

\* Insights over two rows of equal Amount and different Item.
C9_Witness ==
    /\ op = "exp_insights"
    /\ Len(ExpLoadOf(expFile).rows) = 2
    /\ ExpLoadOf(expFile).rows[1].Amount = ExpLoadOf(expFile).rows[2].Amount
    /\ ExpLoadOf(expFile).rows[1].Item # ExpLoadOf(expFile).rows[2].Item
    /\ Len(ret.val) = 5

\* C10: every record load returns has task, time and completed; a record
\* stored without `completed` comes back with completed = FALSE, and load
\* leaves the file as it is, the stored record still without the field.
StoredKeys(file, i) == {file.data[i][j][1] : j \in 1..Len(file.data[i])}

C10_LoadNormalizesInMemory ==
    [][ op' = "rem_load" =>
          /\ remFile' = remFile
          /\ Len(ret'.val) = Len(remFile.data)
          /\ \A i \in 1..Len(ret'.val) :
                /\ {"task", "time", "completed"} \subseteq DOMAIN ret'.val[i]
                /\ "completed" \notin StoredKeys(remFile, i) =>
                      (~ret'.val[i].completed
                       /\ "completed" \notin StoredKeys(remFile', i)) ]_vars

\* A load of a file holding a record without `completed`.
C10_Witness ==
    /\ op = "rem_load"
    /\ remFile.exists
    /\ \E i \in 1..Len(remFile.data) : "completed" \notin StoredKeys(remFile, i)
    /\ Len(ret.val) = Len(remFile.data)

\* C3: check_reminders returns, in stored order, the task of exactly the
\* incomplete reminders whose time parses as date and time with instant
\* <= now, or else parses as a date with date <= today; a time in neither
\* format is skipped, a future reminder left out.
IsDue(task, now) ==
    LET dt == strptime(task.time, FMT_DATETIME)
        d == strptime(task.time, FMT_DATE)
    IN \/ dt.ok /\ InstantOrd(dt) <= InstantOrd(now)
       \/ ~dt.ok /\ d.ok /\ DateOrd(d) <= DateOrd(now)

C3_DueExactly ==
    op = "rem_check" =>
        LET tasks == RemLoadOf(remFile)
            due == SelectSeq([i \in 1..Len(tasks) |-> i],
                             LAMBDA i : ~tasks[i].completed /\ IsDue(tasks[i], arg[1]))
        IN /\ ret.exc = ""
           /\ ret.val = [k \in 1..Len(due) |-> tasks[due[k]].task]

\* The documented example at now = 2024-06-01 00:00: the first and third.
C3_Witness ==
    /\ op = "rem_check"
    /\ arg[1] = At_(2024, 6, 1, 0, 0)
    /\ RemLoadOf(remFile) = EXAMPLE_TASKS
    /\ ret.val = << <<"a">>, <<"c">> >>

\* C4: a completed reminder contributes nothing to check_reminders: the
\* result is the result for the file with its completed reminders removed.
C4_CompletedNeverDue ==
    op = "rem_check" =>
        ret.val = Notifications(SelectSeq(RemLoadOf(remFile), LAMBDA t : ~t.completed),
                                arg[1])

\* A completed reminder of the past beside a due one: only the latter shows.
C4_Witness ==
    /\ op = "rem_check"
    /\ arg[1] = At_(2024, 6, 1, 12, 0)
    /\ Len(RemLoadOf(remFile)) = 2
    /\ RemLoadOf(remFile)[1] = [task |-> <<"a">>, time |-> T_PastDT, completed |-> TRUE]
    /\ RemLoadOf(remFile)[2] = [task |-> <<"b">>, time |-> T_PastD, completed |-> FALSE]
    /\ ret.val = << <<"b">> >>

\* C5: when the two cycles both load before either saves, the later save
\* overwrites the earlier one unnoticed: the file holds the later writer's
\* change applied to what both loaded, and nothing of the earlier writer's.
BothLoadedFirst ==
    /\ \A p \in Procs : procs[p].pc = "done" /\ procs[p].seen = 0
    /\ Len(saved) = 2

C5_LastWriterWins ==
    BothLoadedFirst =>
        LET earlier == procs[saved[1]]
            later == procs[saved[2]]
        IN StoreFile = SavedOf(MutateOf(later.cycle, earlier.before))

\* Two adds of different reminders raced: the file ends with one more
\* reminder than both loaded, the later writer's.
C5_Witness ==
    /\ BothLoadedFirst
    /\ page = PAGE_REMINDERS
    /\ procs[1].cycle.kind = "add" /\ procs[2].cycle.kind = "add"
    /\ procs[1].cycle # procs[2].cycle
    /\ saved = <<1, 2>>
    /\ RemLoadOf(remFile) =
          Append(procs[1].before, NewReminder(procs[2].cycle.a, procs[2].cycle.b))

\* C7: a non-200 weather reply is recovered where it is received: in the
\* morning brief and on the weather and news page alike, the run that got
\* it raises no unhandled error on its way to the news section, and at its
\* end a fallback message has been shown.  (Of the claim's three failures
\* this states the non-200 reply; a request that raises and a missing API
\* key are described with the claim's result.)
FallbackMessages ==
    {"City not found! Please check spelling.", "City not found",
     "Weather service unavailable", "News service unavailable"}

Shown(msgs) == \E i \in 1..Len(prog.out) : prog.out[i] \in msgs

GotNon200 == prog.data.cod \notin {0, 200}

C7_Non200Recovered ==
    GotNon200 =>
        /\ prog.exc = ""
        /\ prog.pc = "end" => Shown(FallbackMessages)

\* C11: after a reminder addition, made through add or through the Add
\* Reminder button, no stored reminder has the empty string as its task.
C11_TaskNonEmpty ==
    [][ op' \in {"rem_add", "ui_add_reminder"} =>
          \A i \in 1..Len(RemLoadOf(remFile')) : RemLoadOf(remFile')[i].task # <<>> ]_vars

\* C12: after an expense addition with a numeric amount, made through add
\* or through the Add Expense button, no stored row has Amount < 0.
C12_AmountNonNegative ==
    [][ op' \in {"exp_add", "ui_add_expense"} =>
          \A i \in 1..Len(ExpLoadOf(expFile').rows) :
              ExpLoadOf(expFile').rows[i].Amount.n >= 0 ]_vars

\* Whether a view displays a reminder.
Displays(view, t) ==
    \/ view = "All"
    \/ view = "Pending" /\ ~t.completed
    \/ view = "Completed" /\ t.completed

\* The position in tasks of the reminder a view displays on row `row`: the
\* displayed reminder that has row - 1 displayed reminders before it.
DisplayedAt(tasks, view, row) ==
    CHOOSE k \in 1..Len(tasks) :
        /\ Displays(view, tasks[k])
        /\ Cardinality({j \in 1..k : Displays(view, tasks[j])}) = row

====
